---- MODULE Spec2Model ----
(***************************************************************************)
(* whisper-text: a zero-width-character text steganography codec.          *)
(*                                                                         *)
(* A Rust `str` is modelled as the sequence of its Unicode scalar values   *)
(* (code points, as integers).  Byte offsets, which `str::find` returns    *)
(* and string slicing consumes, are computed from the UTF-8 length of each *)
(* scalar value.  A `Vec<u8>` is a sequence of integers in 0..255.         *)
(* Option<T> is a sequence of length 0 (None) or 1 (Some).                 *)
(* Result<String> is a record [kind, val, err]; kind "None" marks an       *)
(* operation that has not been called yet.                                 *)
(***************************************************************************)
EXTENDS Integers, Sequences, FiniteSets

VARIABLES cover, secret, encoded, text, decoded, visible, before, noise, flipped

vars == <<cover, secret, encoded, text, decoded, visible, before, noise, flipped>>

(***************************************************************************)
(* Symbol alphabet (codec.rs).                                             *)
(***************************************************************************)
\* '\u{200B}' ZERO WIDTH SPACE
ZERO_BIT == 8203
\* '\u{200C}' ZERO WIDTH NON-JOINER
ONE_BIT == 8204
\* "\u{200D}" ZERO WIDTH JOINER, a one-character &str
START_MARKER == <<8205>>
\* "\u{FEFF}" ZERO WIDTH NO-BREAK SPACE, a one-character &str
END_MARKER == <<65279>>

(***************************************************************************)
(* Results (error.rs).                                                     *)
(***************************************************************************)
Error == {"CoverTextTooShort", "NoHiddenMessage", "CorruptedPayload", "InvalidUtf8"}

Ok(v) == [kind |-> "Ok", val |-> v, err |-> ""]

Err(e) == [kind |-> "Err", val |-> <<>>, err |-> e]

NotCalled == [kind |-> "None", val |-> <<>>, err |-> ""]

(***************************************************************************)
(* UTF-8, the representation of str and String.                            *)
(***************************************************************************)
\* char::len_utf8
len_utf8(c) == IF c < 128 THEN 1 ELSE IF c < 2048 THEN 2 ELSE IF c < 65536 THEN 3 ELSE 4

\* the UTF-8 bytes of one scalar value
encode_utf8(c) ==
    IF c < 128 THEN <<c>>
    ELSE IF c < 2048 THEN <<192 + (c \div 64), 128 + (c % 64)>>
    ELSE IF c < 65536 THEN
        <<224 + (c \div 4096), 128 + ((c \div 64) % 64), 128 + (c % 64)>>
    ELSE <<240 + (c \div 262144), 128 + ((c \div 4096) % 64),
           128 + ((c \div 64) % 64), 128 + (c % 64)>>

RECURSIVE as_bytes(_)
\* str::as_bytes: the UTF-8 bytes of a string
as_bytes(s) == IF s = <<>> THEN <<>> ELSE encode_utf8(Head(s)) \o as_bytes(Tail(s))

\* the byte offset of the i-th scalar value of s: the UTF-8 lengths of the
\* i-1 values before it, summed by length
byte_offset(s, i) ==
    LET W(k) == Cardinality({j \in 1..(i - 1) : len_utf8(s[j]) = k})
    IN  W(1) + 2 * W(2) + 3 * W(3) + 4 * W(4)

\* str::len: the length in bytes
str_len(s) == byte_offset(s, Len(s) + 1)

IsCont(b) == b >= 128 /\ b <= 191

\* the number of bytes of the well-formed UTF-8 sequence that starts bytes,
\* or 0 when bytes starts with no well-formed sequence (Unicode table 3-7,
\* which core::str::from_utf8 implements)
utf8_width(bytes) ==
    LET n == Len(bytes)
        b0 == bytes[1]
    IN  IF b0 < 128 THEN 1
        ELSE IF b0 >= 194 /\ b0 <= 223 THEN
            IF n >= 2 /\ IsCont(bytes[2]) THEN 2 ELSE 0
        ELSE IF b0 >= 224 /\ b0 <= 239 THEN
            IF n >= 3 /\ IsCont(bytes[3])
               /\ (CASE b0 = 224 -> bytes[2] >= 160 /\ bytes[2] <= 191
                     [] b0 = 237 -> bytes[2] >= 128 /\ bytes[2] <= 159
                     [] OTHER -> IsCont(bytes[2]))
            THEN 3 ELSE 0
        ELSE IF b0 >= 240 /\ b0 <= 244 THEN
            IF n >= 4 /\ IsCont(bytes[3]) /\ IsCont(bytes[4])
               /\ (CASE b0 = 240 -> bytes[2] >= 144 /\ bytes[2] <= 191
                     [] b0 = 244 -> bytes[2] >= 128 /\ bytes[2] <= 143
                     [] OTHER -> IsCont(bytes[2]))
            THEN 4 ELSE 0
        ELSE 0

\* the scalar value of a well-formed sequence of w bytes
utf8_scalar(bytes, w) ==
    CASE w = 1 -> bytes[1]
      [] w = 2 -> (bytes[1] % 32) * 64 + (bytes[2] % 64)
      [] w = 3 -> (bytes[1] % 16) * 4096 + (bytes[2] % 64) * 64 + (bytes[3] % 64)
      [] OTHER -> (bytes[1] % 8) * 262144 + (bytes[2] % 64) * 4096
                  + (bytes[3] % 64) * 64 + (bytes[4] % 64)

RECURSIVE utf8_valid(_)
utf8_valid(bytes) ==
    IF bytes = <<>> THEN TRUE
    ELSE LET w == utf8_width(bytes)
         IN  w > 0 /\ utf8_valid(SubSeq(bytes, w + 1, Len(bytes)))

RECURSIVE utf8_chars(_)
\* the scalar values of valid UTF-8 bytes
utf8_chars(bytes) ==
    IF bytes = <<>> THEN <<>>
    ELSE LET w == utf8_width(bytes)
         IN  <<utf8_scalar(bytes, w)>> \o utf8_chars(SubSeq(bytes, w + 1, Len(bytes)))

\* String::from_utf8(bytes).map_err(|_| Error::InvalidUtf8)
from_utf8(bytes) ==
    IF utf8_valid(bytes) THEN Ok(utf8_chars(bytes)) ELSE Err("InvalidUtf8")

(***************************************************************************)
(* str::find and slicing by byte offsets.                                  *)
(***************************************************************************)
\* str::find(&str): the byte offset of the first match, or None
find(haystack, needle) ==
    LET hits == {i \in 1..(Len(haystack) - Len(needle) + 1) :
                    SubSeq(haystack, i, i + Len(needle) - 1) = needle}
    IN  IF hits = {} THEN <<>>
        ELSE <<byte_offset(haystack, CHOOSE i \in hits : \A j \in hits : i <= j)>>

\* &s[from..to], from and to byte offsets on character boundaries: the scalar
\* values whose bytes lie in from..to-1
slice(s, from, to) ==
    LET below == Cardinality({i \in 1..Len(s) : byte_offset(s, i) < from})
        upto == Cardinality({i \in 1..Len(s) : byte_offset(s, i) < to})
    IN  SubSeq(s, below + 1, upto)

(***************************************************************************)
(* encode (codec.rs).                                                      *)
(***************************************************************************)
\* variant: the two bit symbols exchanged
bit_symbol_inverted(byte, bit_pos) ==
    IF (byte \div (2 ^ bit_pos)) % 2 = 1 THEN ZERO_BIT ELSE ONE_BIT

\* let bit = (byte >> bit_pos) & 1; if bit == 1 { ONE_BIT } else { ZERO_BIT }
bit_symbol(byte, bit_pos) ==
    IF (byte \div (2 ^ bit_pos)) % 2 = 1 THEN ONE_BIT ELSE ZERO_BIT

\* variant: for bit_pos in 0..8, least significant bit first
byte_symbols_lsb_first(byte) == [k \in 1..8 |-> bit_symbol(byte, k - 1)]

\* for bit_pos in (0..8).rev() { hidden.push(..) }
byte_symbols(byte) == [k \in 1..8 |-> bit_symbol(byte, 8 - k)]

RECURSIVE push_bytes(_, _)
\* for &byte in secret_bytes { .. }, pushing onto hidden
push_bytes(hidden, secret_bytes) ==
    IF secret_bytes = <<>> THEN hidden
    ELSE push_bytes(hidden \o byte_symbols(Head(secret_bytes)), Tail(secret_bytes))

\* the body of encode after the emptiness check
embed(cover_text, secret_str) ==
    LET secret_bytes == as_bytes(secret_str)
        hidden == push_bytes(START_MARKER, secret_bytes) \o END_MARKER
    IN  IF cover_text # <<>>
        THEN Ok(<<Head(cover_text)>> \o hidden \o Tail(cover_text))
        ELSE Ok(<<>>)

\* variant: encode without the emptiness check
encode_unchecked(cover_text, secret_str) == embed(cover_text, secret_str)

\* pub fn encode(cover_text: &str, secret: &str) -> Result<String>
encode(cover_text, secret_str) ==
    IF cover_text = <<>> THEN Err("CoverTextTooShort")
    ELSE embed(cover_text, secret_str)

(***************************************************************************)
(* decode (codec.rs).                                                      *)
(***************************************************************************)
\* variant: every character that is not ONE_BIT counts as a 0 bit
bit_of_lenient(ch) == IF ch = ONE_BIT THEN <<1>> ELSE <<0>>

\* match ch { ZERO_BIT => 0, ONE_BIT => 1, _ => continue }
bit_of(ch) == IF ch = ZERO_BIT THEN <<0>> ELSE IF ch = ONE_BIT THEN <<1>> ELSE <<>>

is_bit(ch) == bit_of(ch) # <<>>

\* variant: the bits fill the byte from its least significant end
shift_in_lsb_first(current_byte, bit_count, bit) == current_byte + bit * (2 ^ bit_count)

\* current_byte = (current_byte << 1) | bit, on a u8; bit_count is the number
\* of bits already in current_byte
shift_in(current_byte, bit_count, bit) == ((current_byte * 2) % 256) + bit

RECURSIVE current_byte_after(_, _, _)
\* current_byte after bit_count of the bits from bits[base + 1] on were
\* shifted into a cleared accumulator
current_byte_after(bits, base, bit_count) ==
    IF bit_count = 0 THEN 0
    ELSE shift_in(current_byte_after(bits, base, bit_count - 1), bit_count - 1,
                  bits[base + bit_count])

\* for ch in hidden_section.chars() { .. }: the loop's final bytes and
\* bit_count.  The loop skips every character that is no bit symbol, pushes a
\* byte and clears the accumulator at every eighth bit, so that it ends with
\* one byte per complete group of 8 bits and the size of the last, incomplete
\* group as bit_count.
scan(hidden_section) ==
    LET symbols == SelectSeq(hidden_section, is_bit)
        bits == [k \in 1..Len(symbols) |-> bit_of(symbols[k])[1]]
    IN  [bytes |-> [k \in 1..(Len(bits) \div 8) |->
                        current_byte_after(bits, 8 * (k - 1), 8)],
         bit_count |-> Len(bits) % 8]

\* variant: the incomplete-bits check left out
finish_unchecked(bytes, bit_count) == from_utf8(bytes)

\* if bit_count != 0 { return Err(CorruptedPayload) }  String::from_utf8(bytes)..
finish(bytes, bit_count) ==
    IF bit_count # 0 THEN Err("CorruptedPayload") ELSE from_utf8(bytes)

\* the first match arm's body: decode the section between the markers
decode_section(encoded_text, start, end) ==
    LET hidden_start == start + str_len(START_MARKER)
        hidden_section == slice(encoded_text, hidden_start, end)
        st == scan(hidden_section)
    IN  finish(st.bytes, st.bit_count)

\* variant: the (Some(_), Some(_)) arm left out
classify_unordered_as_absent(start_pos, end_pos) ==
    IF start_pos # <<>> /\ end_pos # <<>> /\ start_pos[1] < end_pos[1] THEN "section"
    ELSE "NoHiddenMessage"

\* match (start_pos, end_pos): which arm is taken
classify(start_pos, end_pos) ==
    IF start_pos # <<>> /\ end_pos # <<>> /\ start_pos[1] < end_pos[1] THEN "section"
    ELSE IF start_pos # <<>> /\ end_pos # <<>> THEN "CorruptedPayload"
    ELSE "NoHiddenMessage"

\* pub fn decode(encoded_text: &str) -> Result<String>
decode(encoded_text) ==
    LET start_pos == find(encoded_text, START_MARKER)
        end_pos == find(encoded_text, END_MARKER)
        arm == classify(start_pos, end_pos)
    IN  IF arm = "section" THEN decode_section(encoded_text, start_pos[1], end_pos[1])
        ELSE Err(arm)

(***************************************************************************)
(* strip_hidden (utils.rs).                                                *)
(***************************************************************************)
\* variant: U+FEFF not matched
is_zero_width_char_no_bom(c) == c \in {8203, 8204, 8205}

\* matches!(c, '\u{200B}' | '\u{200C}' | '\u{200D}' | '\u{FEFF}')
is_zero_width_char(c) == c \in {8203, 8204, 8205, 65279}

keep_visible(c) == ~is_zero_width_char(c)

\* text.chars().filter(|&c| !is_zero_width_char(c)).collect()
strip_hidden(s) == SelectSeq(s, keep_visible)

(***************************************************************************)
(* Inputs.                                                                 *)
(***************************************************************************)
\* the longest cover, in scalar values
MaxCoverLen == 2

\* the longest secret, in scalar values
MaxSecretLen == 2

\* the longest received text, in tokens (a character or a whole byte)
MaxTokens == 4

\* the longest payload of a framed text, in tokens
MaxPayloadTokens == 2

\* the most noise characters inserted into one text
MaxNoise == 1

SeqsUpTo(S, n) == UNION {[1..k -> S] : k \in 0..n}

RECURSIVE Flatten(_)
Flatten(ss) == IF ss = <<>> THEN <<>> ELSE Head(ss) \o Flatten(Tail(ss))

\* 'A' and three of the reserved characters: a bit symbol, START and END
CoverChars == {65, 8203, 8205, 65279}

\* 'A', 'B', e-acute (2 bytes), U+4E16 (3 bytes), U+1F680 (4 bytes)
SecretChars == {65, 66, 233, 19990, 128640}

Covers == SeqsUpTo(CoverChars, MaxCoverLen)

Secrets == SeqsUpTo(SecretChars, MaxSecretLen)

\* bytes a received payload may carry: 'A', a lone continuation byte, the
\* two bytes of e-acute
ProbeBytes == {65, 128, 195, 169}

\* a received text is made of single characters and of whole 8-symbol bytes
Tokens == {<<c>> : c \in {65, 8203, 8204, 8205, 65279}}
          \cup {byte_symbols(b) : b \in ProbeBytes}

ReceivedTexts == {Flatten(ts) : ts \in SeqsUpTo(Tokens, MaxTokens)}

\* single bit symbols and the two bytes of e-acute
PayloadTokens == {<<8203>>, <<8204>>} \cup {byte_symbols(b) : b \in {195, 169}}

\* texts with one well-ordered marker pair around a payload of bit symbols
FramedTexts ==
    {<<65>> \o START_MARKER \o Flatten(ts) \o END_MARKER \o <<66>> :
        ts \in SeqsUpTo(PayloadTokens, MaxPayloadTokens)}

\* characters that are neither bit symbols nor END: 'A', e-acute, START
NoiseChars == {65, 233, 8205}

InsertAt(s, p, c) == SubSeq(s, 1, p - 1) \o <<c>> \o SubSeq(s, p, Len(s))

(***************************************************************************)
(* Operations.                                                             *)
(***************************************************************************)
Idle ==
    /\ encoded = NotCalled
    /\ decoded = NotCalled
    /\ visible = NotCalled
    /\ before = NotCalled
    /\ noise = 0
    /\ flipped = 0

\* the caller encodes its cover and secret; the result, when it is one, is
\* the text it holds from then on
Encode ==
    /\ encoded.kind = "None"
    /\ encoded' = encode(cover, secret)
    /\ text' = IF encoded'.kind = "Ok" THEN encoded'.val ELSE text
    /\ UNCHANGED <<cover, secret, decoded, visible, before, noise, flipped>>

\* the caller decodes the text it holds
Decode ==
    /\ decoded.kind = "None"
    /\ decoded' = decode(text)
    /\ UNCHANGED <<cover, secret, encoded, text, visible, before, noise, flipped>>

\* the caller strips the text it holds
StripHidden ==
    /\ visible.kind = "None"
    /\ visible' = Ok(strip_hidden(text))
    /\ UNCHANGED <<cover, secret, encoded, text, decoded, before, noise, flipped>>

\* after a decode, a character that is no bit symbol and no END is inserted
\* at position p, after the first START and not after the first END; the
\* result of the first decode is kept for comparison
InsertNoise(p, c) ==
    /\ decoded.kind # "None"
    /\ noise < MaxNoise
    /\ \E a \in 1..Len(text) :
          /\ <<text[a]>> = START_MARKER
          /\ \A j \in 1..(a - 1) : <<text[j]>> # START_MARKER
          /\ p > a
          /\ \A j \in 1..(p - 1) : <<text[j]>> # END_MARKER
          /\ \E b \in p..Len(text) : <<text[b]>> = END_MARKER
    /\ text' = InsertAt(text, p, c)
    /\ before' = IF noise = 0 THEN decoded ELSE before
    /\ decoded' = NotCalled
    /\ noise' = noise + 1
    /\ UNCHANGED <<cover, secret, encoded, visible, flipped>>

\* one bit symbol of the encoded text is replaced by the opposite one
FlipBit(i) ==
    /\ encoded.kind = "Ok"
    /\ decoded.kind = "None"
    /\ flipped = 0
    /\ text[i] \in {ZERO_BIT, ONE_BIT}
    /\ text' = [text EXCEPT ![i] = IF text[i] = ZERO_BIT THEN ONE_BIT ELSE ZERO_BIT]
    /\ flipped' = i
    /\ UNCHANGED <<cover, secret, encoded, decoded, visible, before, noise>>

(***************************************************************************)
(* Spec: encode, then decode and strip_hidden of the encoded text.         *)
(***************************************************************************)
Init ==
    /\ cover \in Covers
    /\ secret \in Secrets
    /\ text = <<>>
    /\ Idle

DecodeEncoded == encoded.kind = "Ok" /\ Decode

StripEncoded == encoded.kind = "Ok" /\ StripHidden

Next == Encode \/ DecodeEncoded \/ StripEncoded

Spec == Init /\ [][Next]_vars

(***************************************************************************)
(* SpecDecode: decode of a received text.                                  *)
(***************************************************************************)
InitDecode ==
    /\ cover = <<>>
    /\ secret = <<>>
    /\ text \in ReceivedTexts
    /\ Idle

NextDecode == Decode

SpecDecode == InitDecode /\ [][NextDecode]_vars

(***************************************************************************)
(* SpecNoise: decode, insert noise between the markers, decode again.      *)
(***************************************************************************)
InitNoise ==
    /\ cover = <<>>
    /\ secret = <<>>
    /\ text \in FramedTexts
    /\ Idle

Noise == \E p \in 1..Len(text), c \in NoiseChars : InsertNoise(p, c)

NextNoise == Decode \/ Noise

SpecNoise == InitNoise /\ [][NextNoise]_vars

(***************************************************************************)
(* SpecFlip: encode, flip one bit symbol, decode.                          *)
(***************************************************************************)
InitFlip ==
    /\ cover = <<65>>
    /\ secret \in Secrets
    /\ text = <<>>
    /\ Idle

Flip == \E i \in 1..Len(text) : FlipBit(i)

NextFlip == Encode \/ Flip \/ DecodeEncoded

SpecFlip == InitFlip /\ [][NextFlip]_vars

(***************************************************************************)
(* Vocabulary of the properties, stated on scalar-value positions.         *)
(***************************************************************************)
Reserved == {8203, 8204, 8205, 65279}

NotReserved(c) == c \notin Reserved

IsBitSymbol(c) == c \in {8203, 8204}

Has(s, c) == \E i \in 1..Len(s) : s[i] = c

\* the position of the first c at or after position from; 0 when there is none
FirstAtFrom(s, c, from) ==
    IF \E i \in from..Len(s) : s[i] = c
    THEN CHOOSE i \in from..Len(s) : s[i] = c /\ \A j \in from..(i - 1) : s[j] # c
    ELSE 0

FirstStart(s) == FirstAtFrom(s, 8205, 1)

FirstEnd(s) == FirstAtFrom(s, 65279, 1)

WellOrdered(s) == FirstStart(s) > 0 /\ FirstStart(s) < FirstEnd(s)

\* the bit values of the bit symbols of a region, in order
BitValues(region) ==
    LET symbols == SelectSeq(region, IsBitSymbol)
    IN  [k \in 1..Len(symbols) |-> IF symbols[k] = 8204 THEN 1 ELSE 0]

\* the bits between the first START and the first END of a well-ordered text
RegionBits(s) == BitValues(SubSeq(s, FirstStart(s) + 1, FirstEnd(s) - 1))

\* one byte per complete group of 8 bits, most significant bit first
BytesOfBits(bits) ==
    [k \in 1..(Len(bits) \div 8) |->
        LET g(j) == bits[8 * (k - 1) + j]
        IN  128 * g(1) + 64 * g(2) + 32 * g(3) + 16 * g(4)
            + 8 * g(5) + 4 * g(6) + 2 * g(7) + g(8)]

\* 8 symbols per byte, most significant bit first, 1 -> U+200C, 0 -> U+200B
SymbolsOfBytes(bytes) ==
    [i \in 1..(8 * Len(bytes)) |->
        IF (bytes[((i - 1) \div 8) + 1] \div (2 ^ (7 - ((i - 1) % 8)))) % 2 = 1
        THEN 8204 ELSE 8203]

\* what decoding a region of bits is to give
DecodedBits(bits) ==
    IF Len(bits) % 8 # 0 THEN Err("CorruptedPayload")
    ELSE IF utf8_valid(BytesOfBits(bits)) THEN Ok(utf8_chars(BytesOfBits(bits)))
    ELSE Err("InvalidUtf8")

(***************************************************************************)
(* Properties.                                                             *)
(***************************************************************************)

\* C1 (Spec): round trip.  Whenever encode succeeded and the encoded text was
\* decoded, decode succeeded and returned exactly the secret.
C1_RoundTrip ==
    (encoded.kind = "Ok" /\ decoded.kind # "None") => decoded = Ok(secret)

\* C2 as stated (Spec): strip_hidden of the encoded text is exactly the cover,
\* for every non-empty cover.
C2_VisibilityOriginal ==
    (encoded.kind = "Ok" /\ visible.kind # "None") => visible = Ok(cover)

\* C2 amended (Spec): strip_hidden of the encoded text is the cover without
\* the cover's own reserved characters, hence exactly the cover when the cover
\* holds none of them.
C2_VisibilityAmended ==
    (encoded.kind = "Ok" /\ visible.kind # "None") =>
        /\ visible = Ok(SelectSeq(cover, NotReserved))
        /\ (\A i \in 1..Len(cover) : cover[i] \notin Reserved) => visible = Ok(cover)

C2_Witness ==
    /\ encoded.kind = "Ok"
    /\ Len(secret) = 2
    /\ cover = <<65, 65>>
    /\ visible = Ok(cover)

\* C3 (Spec): wire layout.  The encoded text is the cover's first scalar
\* value, START, 8 bit symbols per byte of the secret (most significant bit
\* first, 1 -> U+200C, 0 -> U+200B), END, and the rest of the cover; its
\* length is len(cover) + 2 + 8 * len_bytes(secret).
C3_WireLayout ==
    encoded.kind = "Ok" =>
        /\ encoded.val = <<cover[1], 8205>> \o SymbolsOfBytes(as_bytes(secret))
                         \o <<65279>> \o Tail(cover)
        /\ Len(encoded.val) = Len(cover) + 2 + 8 * Len(as_bytes(secret))

C3_Witness ==
    /\ encoded.kind = "Ok"
    /\ Len(cover) = 2
    /\ secret = <<233, 66>>
    /\ Len(encoded.val) = 28

\* C4 (Spec): encode fails, with CoverTextTooShort, if and only if the cover
\* is empty; for every other cover it succeeds.
C4_EncodeFailsIffEmpty ==
    encoded.kind # "None" =>
        /\ (cover = <<>>) <=> (encoded = Err("CoverTextTooShort"))
        /\ (cover # <<>>) <=> (encoded.kind = "Ok")

C4_Witness ==
    /\ cover = <<>>
    /\ secret # <<>>
    /\ encoded = Err("CoverTextTooShort")

\* C5 (SpecDecode): a text without START or without END decodes to
\* NoHiddenMessage; a text with both whose first END is before its first START
\* decodes to CorruptedPayload.
C5_MarkerClassification ==
    decoded.kind # "None" =>
        /\ (~Has(text, 8205) \/ ~Has(text, 65279)) => decoded = Err("NoHiddenMessage")
        /\ (Has(text, 8205) /\ Has(text, 65279) /\ FirstEnd(text) < FirstStart(text))
              => decoded = Err("CorruptedPayload")

C5_Witness ==
    /\ decoded = Err("CorruptedPayload")
    /\ Has(text, 8205)
    /\ FirstEnd(text) > 0
    /\ FirstEnd(text) < FirstStart(text)

\* C6 (SpecDecode): when the first START precedes the first END and the number
\* of bit symbols between them is no multiple of 8, decode returns
\* CorruptedPayload, whatever else lies between the markers and whatever the
\* complete groups of 8 bits spell.
C6_CorruptionDetection ==
    (decoded.kind # "None" /\ WellOrdered(text) /\ Len(RegionBits(text)) % 8 # 0)
        => decoded = Err("CorruptedPayload")

C6_Witness ==
    /\ decoded = Err("CorruptedPayload")
    /\ WellOrdered(text)
    /\ Len(RegionBits(text)) = 9
    /\ ~utf8_valid(BytesOfBits(RegionBits(text)))

\* C7 (SpecDecode): decode returns InvalidUtf8 exactly when the first START
\* precedes the first END, the number of bit symbols between them is a
\* multiple of 8 and the bytes they spell are no valid UTF-8; when the bytes
\* are valid UTF-8, decode succeeds with their text.
C7_InvalidUtf8Exactly ==
    decoded.kind # "None" =>
        LET framed == WellOrdered(text) /\ Len(RegionBits(text)) % 8 = 0
            bytes == BytesOfBits(RegionBits(text))
        IN  /\ (decoded = Err("InvalidUtf8")) <=> (framed /\ ~utf8_valid(bytes))
            /\ (framed /\ utf8_valid(bytes)) => decoded = Ok(utf8_chars(bytes))

C7_Witness ==
    /\ decoded = Err("InvalidUtf8")
    /\ WellOrdered(text)
    /\ Len(RegionBits(text)) = 16

\* C8 (SpecNoise): after characters that are neither bit symbols nor END were
\* inserted between the first START and the first END, decode returns what it
\* returned before the insertions.
C8_NoiseTolerance ==
    (noise > 0 /\ decoded.kind # "None") => decoded = before

C8_Witness ==
    /\ noise > 0
    /\ decoded = Ok(<<233>>)
    /\ before = decoded
    /\ text[3] = 8205

\* C9 (SpecDecode): when an END follows the first START, decode decodes the
\* region between the first START and the first END after it, whether or not
\* another END stands before that START.
C9_RegionSelection ==
    (/\ decoded.kind # "None"
     /\ FirstStart(text) > 0
     /\ FirstAtFrom(text, 65279, FirstStart(text)) > 0)
        => decoded = DecodedBits(BitValues(SubSeq(text, FirstStart(text) + 1,
                         FirstAtFrom(text, 65279, FirstStart(text)) - 1)))

\* C10 as stated (SpecFlip): encode("A", "AB") puts the 16 bit symbols
\* 01000001 01000010 between START and END, and with any one of them flipped
\* decode succeeds with a 2-byte secret other than "AB".
C10_FlipOriginal ==
    (cover = <<65>> /\ secret = <<65, 66>> /\ encoded.kind = "Ok") =>
        /\ encoded.val = <<65, 8205,
                           8203, 8204, 8203, 8203, 8203, 8203, 8203, 8204,
                           8203, 8204, 8203, 8203, 8203, 8203, 8204, 8203,
                           65279>>
        /\ (flipped # 0 /\ decoded.kind # "None") =>
              /\ decoded.kind = "Ok"
              /\ Len(as_bytes(decoded.val)) = 2
              /\ decoded.val # <<65, 66>>

\* C10 amended (SpecFlip): the same, for the 14 bit symbols that are not the
\* most significant bit of a byte; with the most significant bit of either
\* byte flipped (positions 3 and 11 of the text) decode returns InvalidUtf8.
C10_FlipAmended ==
    (cover = <<65>> /\ secret = <<65, 66>> /\ encoded.kind = "Ok") =>
        /\ encoded.val = <<65, 8205,
                           8203, 8204, 8203, 8203, 8203, 8203, 8203, 8204,
                           8203, 8204, 8203, 8203, 8203, 8203, 8204, 8203,
                           65279>>
        /\ flipped \in {0} \cup 3..18
        /\ (flipped \in 3..18 \ {3, 11} /\ decoded.kind # "None") =>
              /\ decoded.kind = "Ok"
              /\ Len(as_bytes(decoded.val)) = 2
              /\ decoded.val # <<65, 66>>
        /\ (flipped \in {3, 11} /\ decoded.kind # "None") =>
              decoded = Err("InvalidUtf8")

C10_Witness ==
    /\ cover = <<65>>
    /\ secret = <<65, 66>>
    /\ flipped = 18
    /\ decoded = Ok(<<65, 67>>)

====
